---- MODULE Spec2Model ----
(***************************************************************************)
(* Flashcard Deutscher: the spaced-repetition scheduler (srsAlgorithm.js)  *)
(* and the rating / viewing / reset flow of InstagramView.jsx.             *)
(*                                                                         *)
(* Numbers.  easeFactor is a JavaScript double that only ever moves in     *)
(* steps of 0.05 between 1.3 and 2.5; it is kept here in hundredths        *)
(* (2.5 is 250).  Math.round of a product of doubles can fall on either    *)
(* side of an exact half (6 * 1.7499999999999996 rounds to 10, 6 * 1.75    *)
(* to 11), so a tie is rounded in either direction (parameter tieUp).      *)
(* Time is a pair (day, ms): setDate() adds whole days and keeps the time  *)
(* of day.                                                                 *)
(***************************************************************************)
EXTENDS Integers, Sequences, FiniteSets, TLC

\* ------------------------------------------------------------------ bounds
MaxInterval == 20
MaxStreak == 4
MaxSteps == 3
MaxReviews == 3
MaxDay == 1
MaxMs == 1000
ClockStepMs == 500
MaxPending == 1
MaxPresses == 4
MaxSessions == 4
MaxStudyDay == 3

\* ------------------------------------------------------- program constants
MinEase == 130
MaxEase == 250
InitialEase == 250
InitialInterval == 1
SecondInterval == 6

AGAIN == 0
HARD == 1
GOOD == 2
EASY == 3
Qualities == {AGAIN, HARD, GOOD, EASY}

Max(a, b) == IF a >= b THEN a ELSE b
Min(a, b) == IF a <= b THEN a ELSE b

\* Math.round(num / den) for num, den > 0; an exact half goes up when tieUp.
MathRound(num, den, tieUp) ==
  LET twice == 2 * num
      low   == twice \div (2 * den)
  IN  IF twice % (2 * den) > den THEN low + 1
      ELSE IF twice % (2 * den) = den THEN (IF tieUp THEN low + 1 ELSE low)
      ELSE low

\* A defective variant: the lapse sets a same-day interval and the final
\* floor is missing.
CalculateNextIntervalNoFloor(quality, currentInterval, easeFactor, consecutiveCorrect, tieUp) ==
  LET newEaseFactor ==
        IF quality = 0 THEN Max(MinEase, easeFactor - 20)
        ELSE IF quality = 1 THEN Max(MinEase, easeFactor - 5)
        ELSE Min(MaxEase, easeFactor + 10)
      newConsecutiveCorrect == IF quality = 0 THEN 0 ELSE consecutiveCorrect + 1
      newInterval ==
        IF quality = 0 THEN 0
        ELSE IF newConsecutiveCorrect = 1 THEN 1
        ELSE IF newConsecutiveCorrect = 2 THEN SecondInterval
        ELSE IF quality = 2
          THEN MathRound(currentInterval * newEaseFactor * 13, 1000, tieUp)
          ELSE MathRound(currentInterval * newEaseFactor, 100, tieUp)
  IN  [interval |-> newInterval,
       easeFactor |-> newEaseFactor,
       consecutiveCorrect |-> newConsecutiveCorrect]

\* A defective variant: the upper clamp of the ease factor is missing.
CalculateNextIntervalNoCap(quality, currentInterval, easeFactor, consecutiveCorrect, tieUp) ==
  LET newEaseFactor ==
        IF quality = 0 THEN Max(MinEase, easeFactor - 20)
        ELSE IF quality = 1 THEN Max(MinEase, easeFactor - 5)
        ELSE easeFactor + 10
      newConsecutiveCorrect == IF quality = 0 THEN 0 ELSE consecutiveCorrect + 1
      newInterval ==
        IF quality = 0 THEN 1
        ELSE IF newConsecutiveCorrect = 1 THEN 1
        ELSE IF newConsecutiveCorrect = 2 THEN SecondInterval
        ELSE IF quality = 2
          THEN MathRound(currentInterval * newEaseFactor * 13, 1000, tieUp)
          ELSE MathRound(currentInterval * newEaseFactor, 100, tieUp)
  IN  [interval |-> Max(1, newInterval),
       easeFactor |-> newEaseFactor,
       consecutiveCorrect |-> newConsecutiveCorrect]

\* A defective variant: a lapse clears the streak but keeps the schedule,
\* i.e. the interval is not reset on quality 0.
CalculateNextIntervalKeepOnLapse(quality, currentInterval, easeFactor, consecutiveCorrect, tieUp) ==
  LET newEaseFactor ==
        IF quality = 0 THEN Max(MinEase, easeFactor - 20)
        ELSE IF quality = 1 THEN Max(MinEase, easeFactor - 5)
        ELSE Min(MaxEase, easeFactor + 10)
      newConsecutiveCorrect == IF quality = 0 THEN 0 ELSE consecutiveCorrect + 1
      newInterval ==
        IF quality = 0 THEN currentInterval
        ELSE IF newConsecutiveCorrect = 1 THEN 1
        ELSE IF newConsecutiveCorrect = 2 THEN SecondInterval
        ELSE IF quality = 2
          THEN MathRound(currentInterval * newEaseFactor * 13, 1000, tieUp)
          ELSE MathRound(currentInterval * newEaseFactor, 100, tieUp)
  IN  [interval |-> Max(1, newInterval),
       easeFactor |-> newEaseFactor,
       consecutiveCorrect |-> newConsecutiveCorrect]

\* A defective variant: the second graduated step is missing, growth is
\* multiplicative from the second successful recall on.
CalculateNextIntervalNoSecondStep(quality, currentInterval, easeFactor, consecutiveCorrect, tieUp) ==
  LET newEaseFactor ==
        IF quality = 0 THEN Max(MinEase, easeFactor - 20)
        ELSE IF quality = 1 THEN Max(MinEase, easeFactor - 5)
        ELSE Min(MaxEase, easeFactor + 10)
      newConsecutiveCorrect == IF quality = 0 THEN 0 ELSE consecutiveCorrect + 1
      newInterval ==
        IF quality = 0 THEN 1
        ELSE IF newConsecutiveCorrect = 1 THEN 1
        ELSE IF quality = 2
          THEN MathRound(currentInterval * newEaseFactor * 13, 1000, tieUp)
          ELSE MathRound(currentInterval * newEaseFactor, 100, tieUp)
  IN  [interval |-> Max(1, newInterval),
       easeFactor |-> newEaseFactor,
       consecutiveCorrect |-> newConsecutiveCorrect]

\* A defective variant: quality 1 ("Okay") is treated as a failed recall
\* for the streak.
CalculateNextIntervalHardResets(quality, currentInterval, easeFactor, consecutiveCorrect, tieUp) ==
  LET newEaseFactor ==
        IF quality = 0 THEN Max(MinEase, easeFactor - 20)
        ELSE IF quality = 1 THEN Max(MinEase, easeFactor - 5)
        ELSE Min(MaxEase, easeFactor + 10)
      newConsecutiveCorrect == IF quality <= 1 THEN 0 ELSE consecutiveCorrect + 1
      newInterval ==
        IF quality = 0 THEN 1
        ELSE IF newConsecutiveCorrect <= 1 THEN 1
        ELSE IF newConsecutiveCorrect = 2 THEN SecondInterval
        ELSE IF quality = 2
          THEN MathRound(currentInterval * newEaseFactor * 13, 1000, tieUp)
          ELSE MathRound(currentInterval * newEaseFactor, 100, tieUp)
  IN  [interval |-> Max(1, newInterval),
       easeFactor |-> newEaseFactor,
       consecutiveCorrect |-> newConsecutiveCorrect]

\* A defective variant: quality 1 leaves the ease factor as it is.
CalculateNextIntervalHardKeepsEase(quality, currentInterval, easeFactor, consecutiveCorrect, tieUp) ==
  LET newEaseFactor ==
        IF quality = 0 THEN Max(MinEase, easeFactor - 20)
        ELSE IF quality = 1 THEN easeFactor
        ELSE Min(MaxEase, easeFactor + 10)
      newConsecutiveCorrect == IF quality = 0 THEN 0 ELSE consecutiveCorrect + 1
      newInterval ==
        IF quality = 0 THEN 1
        ELSE IF newConsecutiveCorrect = 1 THEN 1
        ELSE IF newConsecutiveCorrect = 2 THEN SecondInterval
        ELSE IF quality = 2
          THEN MathRound(currentInterval * newEaseFactor * 13, 1000, tieUp)
          ELSE MathRound(currentInterval * newEaseFactor, 100, tieUp)
  IN  [interval |-> Max(1, newInterval),
       easeFactor |-> newEaseFactor,
       consecutiveCorrect |-> newConsecutiveCorrect]

\* calculateNextInterval(quality, currentInterval, easeFactor, consecutiveCorrect)
CalculateNextInterval(quality, currentInterval, easeFactor, consecutiveCorrect, tieUp) ==
  LET newEaseFactor ==
        IF quality = 0 THEN Max(MinEase, easeFactor - 20)
        ELSE IF quality = 1 THEN Max(MinEase, easeFactor - 5)
        ELSE Min(MaxEase, easeFactor + 10)
      newConsecutiveCorrect == IF quality = 0 THEN 0 ELSE consecutiveCorrect + 1
      newInterval ==
        IF quality = 0 THEN 1
        ELSE IF newConsecutiveCorrect = 1 THEN 1
        ELSE IF newConsecutiveCorrect = 2 THEN SecondInterval
        ELSE IF quality = 2
          THEN MathRound(currentInterval * newEaseFactor * 13, 1000, tieUp)
          ELSE MathRound(currentInterval * newEaseFactor, 100, tieUp)
  IN  [interval |-> Max(1, newInterval),
       easeFactor |-> newEaseFactor,
       consecutiveCorrect |-> newConsecutiveCorrect]

\* ---------------------------------------------------------------- time
MsPerDay == 86400000
DebounceMs == 1000

\* null timestamp (nextReview / lastReviewed of an untouched card)
Null == [day |-> -1, ms |-> 0]
\* useRef(0): the epoch, long before the session starts
LongAgo == [day |-> -1, ms |-> 0]
StartTime == [day |-> 0, ms |-> 0]

IsNull(t) == t.day < 0
TimeLT(a, b) == a.day < b.day \/ (a.day = b.day /\ a.ms < b.ms)
TimeLE(a, b) == a.day < b.day \/ (a.day = b.day /\ a.ms <= b.ms)
\* toDateString() equality: same calendar day
SameDay(a, b) == a.day = b.day
\* now - lastRatingTime.current, in milliseconds
ElapsedMs(a, b) == (a.day - b.day) * MsPerDay + (a.ms - b.ms)

\* JavaScript values that can arrive as an interval: a finite number (whole
\* days here, far below the range of Date), NaN, the infinities, and values
\* that are not numbers
JSNumber(n) == [type |-> "number", kind |-> "finite", value |-> n]
NaN == [type |-> "number", kind |-> "NaN", value |-> 0]
PosInfinity == [type |-> "number", kind |-> "Infinity", value |-> 0]
NegInfinity == [type |-> "number", kind |-> "-Infinity", value |-> 0]
NonNumbers == {[type |-> t, kind |-> "none", value |-> 0] :
                 t \in {"string", "undefined", "object"}}
\* interval < 0
LessThanZero(v) == v.kind = "-Infinity" \/ (v.kind = "finite" /\ v.value < 0)

\* a Date whose time value is NaN, and the RangeError toISOString() throws on it
InvalidDate == [day |-> -2, ms |-> 0]
RangeError == [day |-> -3, ms |-> 0]

\* A defective variant: neither the interval nor the resulting date is
\* validated.
CalculateNextReviewDateUnguarded(interval, today) ==
  LET nextReview ==
        IF interval.kind = "finite"
          THEN [day |-> today.day + interval.value, ms |-> today.ms]
          ELSE InvalidDate
  IN  IF nextReview = InvalidDate THEN RangeError ELSE nextReview

\* calculateNextReviewDate(interval), evaluated at time today
CalculateNextReviewDate(interval, today) ==
  LET checked ==
        IF interval.type # "number" \/ interval.kind = "NaN" \/ LessThanZero(interval)
          THEN JSNumber(1) ELSE interval
      \* setDate(getDate() + Math.round(interval))
      nextReview ==
        IF checked.kind = "finite"
          THEN [day |-> today.day + checked.value, ms |-> today.ms]
          ELSE InvalidDate
  IN  IF nextReview = InvalidDate
        THEN [day |-> today.day + 1, ms |-> today.ms]
        ELSE nextReview

\* ---------------------------------------------------------------- items
\* status: null (shown as 'new'), "learning", "review", "learned"; a variable
\* that was never assigned is undefined
STATUS_NEW == "new"
STATUS_LEARNING == "learning"
STATUS_REVIEW == "review"
STATUS_LEARNED == "learned"
STATUS_UNDEFINED == "undefined"
Statuses == {STATUS_NEW, STATUS_LEARNING, STATUS_REVIEW, STATUS_LEARNED}

Modes == {"random", "new", "learning", "review", "learned"}
\* the qualities the rating buttons and arrow keys pass: onRate(0), onRate(1)
UIQualities == {0, 1}

VARIABLES
  card,            \* scheduler harness: the triple calculateNextInterval is applied to
  history,         \* scheduler harness: the applications made so far
  words,           \* useState: the collection
  filteredWords,   \* useState: the working set (snapshots of items)
  visibleCardId,   \* useState: id of the displayed card, 0 for null
  studyMode,       \* useState
  viewedCardIds,   \* useState: cards already marked as viewed
  lastRatingTime,  \* useRef: time of the last accepted rating
  now,             \* the wall clock
  filterDirty,     \* the filter effect is scheduled (words or studyMode changed)
  viewDirty,       \* the visible-card effects are scheduled
  accepted         \* history: updateWordWithSRS calls per item since creation / reset

harnessVars == <<card, history>>
appVars == <<words, filteredWords, visibleCardId, studyMode, viewedCardIds,
             lastRatingTime, now, filterDirty, viewDirty, accepted>>
vars == <<card, history, words, filteredWords, visibleCardId, studyMode,
          viewedCardIds, lastRatingTime, now, filterDirty, viewDirty, accepted>>

\* initialWordsData: the vocabulary file, here two entries
InitialWordsData == <<1, 2>>
NumWords == Len(InitialWordsData)

\* initialWords: one freshly created item (status null is NEW)
InitialWord(id) ==
  [id |-> id, status |-> STATUS_NEW, nextReview |-> Null,
   interval |-> InitialInterval, easeFactor |-> InitialEase,
   consecutiveCorrect |-> 0, createdDate |-> StartTime,
   lastReviewed |-> Null, totalReviews |-> 0, mistakeCount |-> 0]

\* ------------------------------------------------- item-level updates
\* markCardAsViewed: the updater applied to the item with the given id
MarkCardAsViewed(word, today) ==
  IF word.status = STATUS_NEW
    THEN [word EXCEPT !.status = STATUS_LEARNING, !.lastReviewed = today]
    ELSE word

\* A defective variant: a toggle sets "learning" but runs the SRS computation
\* as a rating does.
UpdateWordWithSRSToggleRunsSRS(word, quality, isToggle, today, tieUp) ==
  LET newStatus ==
        IF isToggle THEN STATUS_LEARNING
        ELSE IF quality = 1 THEN STATUS_LEARNED
        ELSE IF quality = 0 THEN STATUS_REVIEW
        ELSE STATUS_UNDEFINED
      currentInterval == IF word.interval = 0 THEN 1 ELSE word.interval
      currentEaseFactor == IF word.easeFactor = 0 THEN InitialEase ELSE word.easeFactor
      srsResult == CalculateNextInterval(quality, currentInterval, currentEaseFactor,
                                         word.consecutiveCorrect, tieUp)
  IN  [word EXCEPT
         !.status = newStatus,
         !.lastReviewed = today,
         !.totalReviews = word.totalReviews + 1,
         !.interval = srsResult.interval,
         !.nextReview = CalculateNextReviewDate(JSNumber(srsResult.interval), today),
         !.consecutiveCorrect = srsResult.consecutiveCorrect,
         !.easeFactor = srsResult.easeFactor,
         !.mistakeCount = IF quality < 1 THEN word.mistakeCount + 1
                          ELSE word.mistakeCount]

\* A defective variant: a toggle clears the status instead of setting
\* "learning".
UpdateWordWithSRSToggleToNew(word, quality, isToggle, today, tieUp) ==
  LET newStatus ==
        IF isToggle THEN STATUS_NEW
        ELSE IF quality = 1 THEN STATUS_LEARNED
        ELSE IF quality = 0 THEN STATUS_REVIEW
        ELSE STATUS_UNDEFINED
      updatedWord ==
        [word EXCEPT !.status = newStatus,
                     !.lastReviewed = today,
                     !.totalReviews = word.totalReviews + 1]
      srsResult == CalculateNextInterval(quality, word.interval, word.easeFactor,
                                         word.consecutiveCorrect, tieUp)
  IN  IF isToggle THEN updatedWord
      ELSE [updatedWord EXCEPT
              !.interval = srsResult.interval,
              !.nextReview = CalculateNextReviewDate(JSNumber(srsResult.interval), today),
              !.consecutiveCorrect = srsResult.consecutiveCorrect,
              !.easeFactor = srsResult.easeFactor,
              !.mistakeCount = IF quality < 1 THEN word.mistakeCount + 1
                               ELSE word.mistakeCount]

\* updateWordWithSRS: the updater applied to the item with the given id
UpdateWordWithSRS(word, quality, isToggle, today, tieUp) ==
  LET newStatus ==
        IF isToggle THEN STATUS_LEARNING
        ELSE IF quality = 1 THEN STATUS_LEARNED
        ELSE IF quality = 0 THEN STATUS_REVIEW
        ELSE STATUS_UNDEFINED
      updatedWord ==
        [word EXCEPT !.status = newStatus,
                     !.lastReviewed = today,
                     !.totalReviews = word.totalReviews + 1]
      currentInterval == IF word.interval = 0 THEN 1 ELSE word.interval
      currentEaseFactor == IF word.easeFactor = 0 THEN InitialEase ELSE word.easeFactor
      srsResult == CalculateNextInterval(quality, currentInterval, currentEaseFactor,
                                         word.consecutiveCorrect, tieUp)
  IN  IF isToggle THEN updatedWord
      ELSE [updatedWord EXCEPT
              !.interval = srsResult.interval,
              !.nextReview = CalculateNextReviewDate(JSNumber(srsResult.interval), today),
              !.consecutiveCorrect = srsResult.consecutiveCorrect,
              !.easeFactor = srsResult.easeFactor,
              !.mistakeCount = IF quality < 1 THEN word.mistakeCount + 1
                               ELSE word.mistakeCount]

\* A defective variant: the reset clears the status and the counters but
\* keeps the schedule.
ResetWordKeepsSchedule(word) ==
  [word EXCEPT !.status = STATUS_NEW, !.consecutiveCorrect = 0, !.mistakeCount = 0,
               !.totalReviews = 0, !.nextReview = Null, !.lastReviewed = Null]

\* resetCardToLearning: the object written over the current card
ResetWord(word) ==
  [word EXCEPT !.status = STATUS_NEW, !.consecutiveCorrect = 0, !.mistakeCount = 0,
               !.totalReviews = 0, !.nextReview = Null, !.lastReviewed = Null,
               !.easeFactor = InitialEase, !.interval = InitialInterval]

\* prevWords.map(word => word.id !== wordId ? word : f(word))
MapWord(ws, wordId, f(_)) ==
  [i \in 1..Len(ws) |-> IF ws[i].id = wordId THEN f(ws[i]) ELSE ws[i]]

Ids(ws) == {ws[i].id : i \in 1..Len(ws)}
\* Array.prototype.find by id
FindById(ws, wordId) == ws[CHOOSE i \in 1..Len(ws) :
                            /\ ws[i].id = wordId
                            /\ \A j \in 1..(i - 1) : ws[j].id # wordId]
WordOf(wordId) == FindById(words, wordId)

\* isCardDue(nextReviewDate) of srsAlgorithm.js, evaluated at time today
IsCardDue(nextReviewDate, today) ==
  IF IsNull(nextReviewDate) THEN TRUE ELSE TimeLE(nextReviewDate, today)

\* ------------------------------------------------------------ selector
\* A defective variant: a card becomes due only after its review time.
IsDueForSortStrict(word, today) ==
  ~IsNull(word.nextReview) /\ TimeLT(word.nextReview, today)

\* a.nextReview && new Date(a.nextReview) <= today
IsDueForSort(word, today) == ~IsNull(word.nextReview) /\ TimeLE(word.nextReview, today)

\* the filters of newStats.due and newStats.overdue
CountsAsDue(word, today) ==
  ~IsNull(word.nextReview) /\ TimeLE(word.nextReview, today) /\ word.totalReviews > 0
CountsAsOverdue(word, today) ==
  ~IsNull(word.nextReview) /\ TimeLT(word.nextReview, today) /\ word.totalReviews > 0

\* getCardStats(words) of srsAlgorithm.js: the four status counters
GetCardStats(ws) ==
  LET IsLearning(w) == w.status = STATUS_LEARNING
      IsLearned(w) == w.status = STATUS_LEARNED
      IsReview(w) == w.status = STATUS_REVIEW
      IsOther(w) == ~IsLearning(w) /\ ~IsLearned(w) /\ ~IsReview(w)
  IN  [total |-> Len(ws),
       new |-> Len(SelectSeq(ws, IsOther)),
       learning |-> Len(SelectSeq(ws, IsLearning)),
       learned |-> Len(SelectSeq(ws, IsLearned)),
       review |-> Len(SelectSeq(ws, IsReview))]

\* newStats of the filter effect, computed from the collection at time today
NewStats(ws, today) ==
  LET IsNew(w) == w.status = STATUS_NEW \/ w.totalReviews = 0
      IsLearning(w) == w.status = STATUS_LEARNING
      IsReview(w) == w.status = STATUS_REVIEW
      IsLearned(w) == w.status = STATUS_LEARNED
      IsDue(w) == CountsAsDue(w, today)
      IsOverdue(w) == CountsAsOverdue(w, today)
  IN  [new |-> Len(SelectSeq(ws, IsNew)),
       learning |-> Len(SelectSeq(ws, IsLearning)),
       review |-> Len(SelectSeq(ws, IsReview)),
       learned |-> Len(SelectSeq(ws, IsLearned)),
       due |-> Len(SelectSeq(ws, IsDue)),
       overdue |-> Len(SelectSeq(ws, IsOverdue))]

Sign(b) == IF b THEN -1 ELSE 1

\* A defective variant: the learning comparator breaks a tie between two due
\* cards by the ease factor.
CompareEaseBreaksTies(a, b, mode, today) ==
  LET aIsDue == IsDueForSort(a, today)
      bIsDue == IsDueForSort(b, today)
      byEase == IF a.easeFactor = b.easeFactor THEN 0
                ELSE Sign(a.easeFactor < b.easeFactor)
      byMistakes == IF a.mistakeCount # b.mistakeCount
                      THEN Sign(a.mistakeCount > b.mistakeCount)
                      ELSE byEase
      byInterval == IF a.interval = b.interval THEN 0
                    ELSE Sign(a.interval < b.interval)
  IN  IF mode = "new"
        THEN IF a.createdDate = b.createdDate THEN 0
             ELSE Sign(TimeLT(a.createdDate, b.createdDate))
      ELSE IF aIsDue /\ ~bIsDue THEN -1
      ELSE IF ~aIsDue /\ bIsDue THEN 1
      ELSE IF mode = "learning"
        THEN IF aIsDue /\ bIsDue
               THEN IF a.nextReview = b.nextReview THEN byEase
                    ELSE Sign(TimeLT(a.nextReview, b.nextReview))
               ELSE byEase
      ELSE IF mode = "review" THEN byMistakes
      ELSE byInterval

\* A defective variant: the comparators order by their difficulty keys only
\* and do not put due cards first.
CompareNoDueFirst(a, b, mode, today) ==
  LET aIsDue == IsDueForSort(a, today)
      bIsDue == IsDueForSort(b, today)
      byEase == IF a.easeFactor = b.easeFactor THEN 0
                ELSE Sign(a.easeFactor < b.easeFactor)
      byMistakes == IF a.mistakeCount # b.mistakeCount
                      THEN Sign(a.mistakeCount > b.mistakeCount)
                      ELSE byEase
      byInterval == IF a.interval = b.interval THEN 0
                    ELSE Sign(a.interval < b.interval)
  IN  IF mode = "new"
        THEN IF a.createdDate = b.createdDate THEN 0
             ELSE Sign(TimeLT(a.createdDate, b.createdDate))
      ELSE IF mode = "learning"
        THEN IF aIsDue /\ bIsDue
               THEN IF a.nextReview = b.nextReview THEN 0
                    ELSE Sign(TimeLT(a.nextReview, b.nextReview))
               ELSE byEase
      ELSE IF mode = "review" THEN byMistakes
      ELSE byInterval

\* the comparator each study mode passes to Array.prototype.sort:
\* negative when a sorts before b, 0 when they compare equal
Compare(a, b, mode, today) ==
  LET aIsDue == IsDueForSort(a, today)
      bIsDue == IsDueForSort(b, today)
      byEase == IF a.easeFactor = b.easeFactor THEN 0
                ELSE Sign(a.easeFactor < b.easeFactor)
      byMistakes == IF a.mistakeCount # b.mistakeCount
                      THEN Sign(a.mistakeCount > b.mistakeCount)
                      ELSE byEase
      byInterval == IF a.interval = b.interval THEN 0
                    ELSE Sign(a.interval < b.interval)
  IN  IF mode = "new"
        THEN IF a.createdDate = b.createdDate THEN 0
             ELSE Sign(TimeLT(a.createdDate, b.createdDate))
      ELSE IF aIsDue /\ ~bIsDue THEN -1
      ELSE IF ~aIsDue /\ bIsDue THEN 1
      ELSE IF mode = "learning"
        THEN IF aIsDue /\ bIsDue
               THEN IF a.nextReview = b.nextReview THEN 0
                    ELSE Sign(TimeLT(a.nextReview, b.nextReview))
               ELSE byEase
      ELSE IF mode = "review" THEN byMistakes
      ELSE byInterval

\* A defective variant: the sort is not stable, an item is put before the
\* items it compares equal to.
InsertSortedUnstable(sorted, x, mode, today) ==
  LET before == {i \in 1..Len(sorted) : Compare(sorted[i], x, mode, today) < 0}
      j == IF before = {} THEN 0 ELSE CHOOSE i \in before : \A k \in before : k <= i
  IN  SubSeq(sorted, 1, j) \o <<x>> \o SubSeq(sorted, j + 1, Len(sorted))

\* one insertion step of a stable sort
InsertSorted(sorted, x, mode, today) ==
  LET notAfter == {i \in 1..Len(sorted) : Compare(sorted[i], x, mode, today) <= 0}
      j == IF notAfter = {} THEN 0 ELSE CHOOSE i \in notAfter : \A k \in notAfter : k <= i
  IN  SubSeq(sorted, 1, j) \o <<x>> \o SubSeq(sorted, j + 1, Len(sorted))

RECURSIVE SortBy(_, _, _)
\* Array.prototype.sort (stable) with the comparator of the mode
SortBy(ws, mode, today) ==
  IF ws = <<>> THEN <<>>
  ELSE InsertSorted(SortBy(SubSeq(ws, 1, Len(ws) - 1), mode, today),
                    ws[Len(ws)], mode, today)

\* A defective variant: the items are bucketed by one classification, NEW
\* when totalReviews is 0 and the status field otherwise.
InModeByClassification(word, mode) ==
  (IF word.totalReviews = 0 THEN STATUS_NEW ELSE word.status) = mode

\* A defective variant: the filter of a mode lets every item pass.
InModeKeepsAll(word, mode) == TRUE

\* the filter predicate of each non-random study mode
InMode(word, mode) ==
  IF mode = "new" THEN word.status = STATUS_NEW \/ word.totalReviews = 0
  ELSE word.status = mode

\* sort(() => Math.random() - 0.5): any rearrangement of the array
Shuffles(ws) ==
  IF ws = <<>> THEN {<<>>}
  ELSE {[i \in 1..Len(ws) |-> ws[p[i]]] : p \in Permutations(1..Len(ws))}

\* the weighted list of the random mode, before shuffling
PrioritizedCards(ws, today) ==
  LET Rated(w) == ~IsNull(w.nextReview) /\ w.totalReviews > 0
      IsOverdue(w) == Rated(w) /\ TimeLT(w.nextReview, today)
      IsDueToday(w) == Rated(w) /\ SameDay(w.nextReview, today)
      IsNewCard(w) == w.status = STATUS_NEW \/ w.totalReviews = 0
      IsFuture(w) == Rated(w) /\ TimeLT(today, w.nextReview)
      overdueCards == SelectSeq(ws, IsOverdue)
      dueCards == SelectSeq(ws, IsDueToday)
      newCards == SelectSeq(ws, IsNewCard)
      futureCards == SelectSeq(ws, IsFuture)
  IN  overdueCards \o overdueCards \o dueCards \o newCards
        \o SubSeq(futureCards, 1, (Len(futureCards) + 9) \div 10)

\* A defective variant: the cards the weighted list left out are not added.
MissingCardsDropped(ws, filtered) == SubSeq(ws, 1, 0)

\* the cards of the collection the weighted list left out
MissingCards(ws, filtered) ==
  LET IsMissing(w) == w.id \notin Ids(filtered)
  IN  SelectSeq(ws, IsMissing)

\* ------------------------------------------------------------- handlers
\* every scheduled effect has run: React flushes the effects of a render
\* before it dispatches the next click or key press
Quiescent == ~filterDirty /\ ~viewDirty

\* filteredWords.find(card => card.id === visibleCardId) || filteredWords[0]
HasCurrentCard == filteredWords # <<>>
\* A defective variant: the handlers take the first card of the working set
\* whatever card is on display.
CurrentCardFirst == filteredWords[1]

CurrentCard ==
  IF visibleCardId \in Ids(filteredWords)
    THEN FindById(filteredWords, visibleCardId)
    ELSE filteredWords[1]

\* the model stops rating an item at MaxReviews reviews or MaxInterval days
WithinBounds(wordId, quality, isToggle) ==
  LET word == WordOf(wordId)
  IN  /\ word.totalReviews < MaxReviews
      /\ \A tieUp \in BOOLEAN :
           UpdateWordWithSRS(word, quality, isToggle, now, tieUp).interval <= MaxInterval

\* A defective variant: the updater has no test of the id and rewrites
\* every item of the collection.
ApplyUpdateWordWithSRSToAll(wordId, quality, isToggle) ==
  /\ \E tieUp \in BOOLEAN :
       words' = [i \in 1..Len(words) |->
                  UpdateWordWithSRS(words[i], quality, isToggle, now, tieUp)]
  /\ accepted' = [accepted EXCEPT ![wordId] = @ + 1]
  /\ filterDirty' = TRUE

\* A defective variant: the update is computed from the handler's snapshot
\* of the card (last write wins) instead of the previous state.
ApplyUpdateWordWithSRSStale(wordId, quality, isToggle) ==
  /\ \E tieUp \in BOOLEAN :
       words' = MapWord(words, wordId,
                        LAMBDA w : UpdateWordWithSRS(FindById(filteredWords, wordId),
                                                     quality, isToggle, now, tieUp))
  /\ accepted' = [accepted EXCEPT ![wordId] = @ + 1]
  /\ filterDirty' = TRUE

\* setWords(prevWords => prevWords.map(...)) of updateWordWithSRS
ApplyUpdateWordWithSRS(wordId, quality, isToggle) ==
  /\ \E tieUp \in BOOLEAN :
       words' = MapWord(words, wordId,
                        LAMBDA w : UpdateWordWithSRS(w, quality, isToggle, now, tieUp))
  /\ accepted' = [accepted EXCEPT ![wordId] = @ + 1]
  /\ filterDirty' = TRUE

\* handleQualityOrStatusRating(quality)
HandleQualityOrStatusRating(quality) ==
  IF ElapsedMs(now, lastRatingTime) < DebounceMs
    THEN UNCHANGED <<words, accepted, filterDirty, lastRatingTime>>
    ELSE /\ lastRatingTime' = now
         /\ IF ~HasCurrentCard
              THEN UNCHANGED <<words, accepted, filterDirty>>
              ELSE ApplyUpdateWordWithSRS(CurrentCard.id, quality, FALSE)

\* isActualToggle: the card already is in the state the button stands for
IsActualToggle(quality) ==
  \/ quality = 1 /\ CurrentCard.status = STATUS_LEARNED
  \/ quality = 0 /\ CurrentCard.status = STATUS_REVIEW

\* handleToggleRating(quality)
HandleToggleRating(quality) ==
  IF ~HasCurrentCard
    THEN UNCHANGED <<words, accepted, filterDirty, lastRatingTime>>
    ELSE IF IsActualToggle(quality)
           THEN /\ ApplyUpdateWordWithSRS(CurrentCard.id, quality, TRUE)
                /\ UNCHANGED lastRatingTime
           ELSE HandleQualityOrStatusRating(quality)

\* a rating button or arrow key: onRate(quality) / handleToggleRating(quality)
RatePressed(quality) ==
  /\ HasCurrentCard => WithinBounds(CurrentCard.id, quality, IsActualToggle(quality))
  /\ HandleToggleRating(quality)
  /\ UNCHANGED <<card, history, filteredWords, visibleCardId, studyMode,
                 viewedCardIds, now, viewDirty>>

\* the press handled after the effects of the last render have run
Rate(quality) == Quiescent /\ RatePressed(quality)

\* resetCardToLearning (right Shift / onReset)
ResetPressed ==
  /\ IF ~HasCurrentCard
       THEN UNCHANGED <<words, accepted, filterDirty>>
       ELSE /\ words' = MapWord(words, CurrentCard.id, ResetWord)
            /\ accepted' = [accepted EXCEPT ![CurrentCard.id] = 0]
            /\ filterDirty' = TRUE
  /\ UNCHANGED <<card, history, filteredWords, visibleCardId, studyMode,
                 viewedCardIds, lastRatingTime, now, viewDirty>>

ResetCardToLearning == Quiescent /\ ResetPressed

\* handleModeChange(mode) of the settings panel: setStudyMode(mode)
SetStudyMode(mode) ==
  /\ Quiescent
  /\ mode # studyMode
  /\ studyMode' = mode
  /\ filterDirty' = TRUE
  /\ UNCHANGED <<card, history, words, filteredWords, visibleCardId,
                 viewedCardIds, lastRatingTime, now, viewDirty, accepted>>

\* getCurrentCardIndex, 0-based; -1 when there is no such card
GetCurrentCardIndex ==
  IF filteredWords = <<>> \/ visibleCardId = 0 \/ visibleCardId \notin Ids(filteredWords)
    THEN -1
    ELSE (CHOOSE i \in 1..Len(filteredWords) :
            /\ filteredWords[i].id = visibleCardId
            /\ \A j \in 1..(i - 1) : filteredWords[j].id # visibleCardId) - 1

\* navigateToCard(index), index 0-based
NavigateToCard(index) ==
  /\ IF index >= 0 /\ index < Len(filteredWords)
       THEN /\ visibleCardId' = filteredWords[index + 1].id
            /\ viewDirty' = (filteredWords[index + 1].id # visibleCardId)
       ELSE UNCHANGED <<visibleCardId, viewDirty>>
  /\ UNCHANGED <<card, history, words, filteredWords, studyMode, viewedCardIds,
                 lastRatingTime, now, filterDirty, accepted>>

\* navigateNext (ArrowRight, swipe up)
NavigateNext ==
  /\ Quiescent
  /\ IF GetCurrentCardIndex < Len(filteredWords) - 1
       THEN NavigateToCard(GetCurrentCardIndex + 1)
       ELSE NavigateToCard(0)

\* navigatePrevious (ArrowLeft, swipe down)
NavigatePrevious ==
  /\ Quiescent
  /\ IF GetCurrentCardIndex > 0
       THEN NavigateToCard(GetCurrentCardIndex - 1)
       ELSE NavigateToCard(Len(filteredWords) - 1)

\* -------------------------------------------------------------- effects
\* the working sets the filter effect can build from a collection: one for
\* each outcome of the shuffles in the random mode, a single one otherwise
WorkingSets(ws, mode, today) ==
  IF mode = "random"
    THEN LET prioritized == PrioritizedCards(ws, today)
         IN  IF prioritized = <<>>
               THEN Shuffles(ws)
               ELSE {f \o m : f \in Shuffles(prioritized),
                              m \in Shuffles(MissingCards(ws, prioritized))}
    ELSE LET Keep(w) == InMode(w, mode)
         IN  {SortBy(SelectSeq(ws, Keep), mode, today)}

\* useEffect "Filter words based on study mode" (deps: words, studyMode)
FilterEffect ==
  /\ filterDirty
  /\ IF Len(words) = 0
       THEN \* if (words.length === 0) return
            /\ filterDirty' = FALSE
            /\ UNCHANGED <<words, filteredWords, visibleCardId, viewDirty>>
       ELSE /\ \E filtered \in WorkingSets(words, studyMode, now) :
                 /\ filteredWords' = filtered
                 \* words.sort(...) of the fallback sorts the state array in place
                 /\ words' = IF studyMode = "random" /\ PrioritizedCards(words, now) = <<>>
                               THEN filtered ELSE words
                 /\ visibleCardId' =
                      IF filtered # <<>> /\ visibleCardId \notin Ids(filtered)
                        THEN filtered[1].id ELSE visibleCardId
            /\ filterDirty' = FALSE
            /\ viewDirty' = TRUE
  /\ UNCHANGED <<card, history, studyMode, viewedCardIds, lastRatingTime, now, accepted>>

\* useEffect "Set initial visible card" and useEffect "Mark card as viewed",
\* run after the same render (deps: filteredWords, visibleCardId, viewedCardIds)
ViewEffects ==
  /\ viewDirty
  /\ LET setInitial == filteredWords # <<>> /\ visibleCardId = 0
         markViewed ==
           /\ visibleCardId # 0
           /\ visibleCardId \notin viewedCardIds
           /\ visibleCardId \in Ids(filteredWords)
           /\ FindById(filteredWords, visibleCardId).status = STATUS_NEW
         Mark(w) == MarkCardAsViewed(w, now)
     IN  /\ visibleCardId' = IF setInitial THEN filteredWords[1].id ELSE visibleCardId
         /\ words' = IF markViewed THEN MapWord(words, visibleCardId, Mark) ELSE words
         /\ viewedCardIds' = IF markViewed THEN viewedCardIds \cup {visibleCardId}
                             ELSE viewedCardIds
         /\ viewDirty' = (setInitial \/ markViewed)
         /\ filterDirty' = (filterDirty \/ (markViewed /\ MapWord(words, visibleCardId, Mark) # words))
  /\ UNCHANGED <<card, history, filteredWords, studyMode, lastRatingTime, now, accepted>>

\* ---------------------------------------------------------------- clock
\* half a second passes
Tick ==
  /\ Quiescent
  /\ now.ms + ClockStepMs <= MaxMs
  /\ now' = [now EXCEPT !.ms = @ + ClockStepMs]
  /\ UNCHANGED <<card, history, words, filteredWords, visibleCardId, studyMode,
                 viewedCardIds, lastRatingTime, filterDirty, viewDirty, accepted>>

\* a day passes
NextDay ==
  /\ Quiescent
  /\ now.day < MaxDay
  /\ now' = [now EXCEPT !.day = @ + 1]
  /\ UNCHANGED <<card, history, words, filteredWords, visibleCardId, studyMode,
                 viewedCardIds, lastRatingTime, filterDirty, viewDirty, accepted>>

\* ------------------------------------------------------ specification
NewCardTriple ==
  [interval |-> InitialInterval, easeFactor |-> InitialEase, consecutiveCorrect |-> 0]

\* the component after mount and the startup load (no saved data)
AppInitAt(time) ==
  /\ words = [i \in 1..NumWords |-> InitialWord(i)]
  /\ filteredWords = <<>>
  /\ visibleCardId = 0
  /\ studyMode = "random"
  /\ viewedCardIds = {}
  /\ lastRatingTime = LongAgo
  /\ now = time
  /\ filterDirty = TRUE
  /\ viewDirty = FALSE
  /\ accepted = [i \in 1..NumWords |-> 0]

AppInit == AppInitAt(StartTime)

Init ==
  /\ AppInit
  /\ card = NewCardTriple
  /\ history = <<>>

Next ==
  \/ \E quality \in UIQualities : Rate(quality)
  \/ ResetCardToLearning
  \/ \E mode \in Modes : SetStudyMode(mode)
  \/ NavigateNext
  \/ NavigatePrevious
  \/ FilterEffect
  \/ ViewEffects
  \/ Tick
  \/ NextDay

Spec == Init /\ [][Next]_vars

\* --------------------------------------------------- statisticsManager.js
\* getTodayKey() is the UTC calendar day of the clock as YYYY-MM-DD and
\* new Date(key) is the midnight (UTC) of that day, so that two keys differ by
\* a whole number of days; a key is kept here as the number of its day.
\* the days on which sessions are recorded
StudyDays == 0..MaxStudyDay

\* getStatistics() without saved statistics: initialStats (streaks and the
\* session counter; the answer and time counters do not enter the streaks)
InitialStats ==
  [streaks |-> [current |-> 0, longest |-> 0, lastStudyDate |-> 0 - 1],
   totalSessions |-> 0]

\* Math.abs(currentDate - lastDate) in days, rounded up by Math.ceil
DiffDays(today, lastStudyDate) ==
  IF today >= lastStudyDate THEN today - lastStudyDate ELSE lastStudyDate - today

\* A defective variant: a second session on the same day counts as one
\* more day of the streak.
UpdateStreaksSameDayCounts(streaks, today) ==
  IF streaks.lastStudyDate < 0
    THEN [current |-> 1, longest |-> 1, lastStudyDate |-> today]
    ELSE LET diffDays == DiffDays(today, streaks.lastStudyDate)
         IN  IF diffDays <= 1
               THEN [current |-> streaks.current + 1,
                     longest |-> IF streaks.longest > streaks.current + 1
                                   THEN streaks.longest ELSE streaks.current + 1,
                     lastStudyDate |-> today]
               ELSE [streaks EXCEPT !.current = 1, !.lastStudyDate = today]

\* updateStreaks(stats, today)
UpdateStreaks(streaks, today) ==
  IF streaks.lastStudyDate < 0
    THEN [current |-> 1, longest |-> 1, lastStudyDate |-> today]
    ELSE LET diffDays == DiffDays(today, streaks.lastStudyDate)
         IN  IF diffDays = 1
               THEN [current |-> streaks.current + 1,
                     longest |-> IF streaks.longest > streaks.current + 1
                                   THEN streaks.longest ELSE streaks.current + 1,
                     lastStudyDate |-> today]
             ELSE IF diffDays > 1
               THEN [streaks EXCEPT !.current = 1, !.lastStudyDate = today]
             ELSE [streaks EXCEPT !.lastStudyDate = today]

\* recordStudySession(...) on the day today; card holds the saved statistics
RecordStudySession(today) ==
  /\ Len(history) < MaxSessions
  /\ card' = [streaks |-> UpdateStreaks(card.streaks, today),
              totalSessions |-> card.totalSessions + 1]
  /\ history' = Append(history, [today |-> today, before |-> card.streaks,
                                 after |-> UpdateStreaks(card.streaks, today)])
  /\ UNCHANGED appVars

StreaksInit ==
  /\ AppInit
  /\ card = InitialStats
  /\ history = <<>>

StreaksNext == \E today \in StudyDays : RecordStudySession(today)

SpecStreaks == StreaksInit /\ [][StreaksNext]_vars

\* ------------------------------------------- from saved progress
\* the days of the earlier sessions in which the saved items were rated: the
\* first day and the day on which a review of 1 day falls together with a
\* review of 6 days made on the first day
SavedRatingTimes == {[day |-> d, ms |-> 0] : d \in {0, SecondInterval - InitialInterval}}
\* the time of the session that loads the saved items
LoadTime == [day |-> SecondInterval, ms |-> 0]

\* a press of a rating button on a displayed item at the given time: a toggle
\* when the item already is in the state of the button, a rating otherwise
Press(word, quality, time) ==
  UpdateWordWithSRS(MarkCardAsViewed(word, time), quality,
                    \/ quality = 1 /\ word.status = STATUS_LEARNED
                    \/ quality = 0 /\ word.status = STATUS_REVIEW,
                    time, TRUE)

RECURSIVE ItemsAfter(_, _)
\* the states an item can be in after at most n presses
ItemsAfter(id, n) ==
  IF n = 0 THEN {InitialWord(id)}
  ELSE LET before == ItemsAfter(id, n - 1)
       IN  before \cup
           UNION {{Press(w, quality, time) :
                     quality \in UIQualities,
                     time \in {t \in SavedRatingTimes : TimeLE(w.lastReviewed, t)}} :
                  w \in before}

\* the migration of the startup load: a card that is "learning" without a
\* review gets status null
Migrate(word) ==
  IF word.status = STATUS_LEARNING /\ word.totalReviews = 0
    THEN [word EXCEPT !.status = STATUS_NEW]
    ELSE word

\* the collections the startup load can find in localStorage
SavedCollections ==
  {[i \in 1..NumWords |-> Migrate(item[i])] :
     item \in {f \in [1..NumWords -> UNION {ItemsAfter(id, MaxPresses) : id \in 1..NumWords}] :
                \A i \in 1..NumWords : f[i].id = i}}

\* the component after mount and the startup load of saved progress; the
\* study mode is read from localStorage as well
SavedInit ==
  /\ words \in SavedCollections
  /\ studyMode \in Modes
  /\ filteredWords = <<>>
  /\ visibleCardId = 0
  /\ viewedCardIds = {}
  /\ lastRatingTime = LongAgo
  /\ now = LoadTime
  /\ filterDirty = TRUE
  /\ viewDirty = FALSE
  /\ accepted = [i \in 1..NumWords |-> words[i].totalReviews]
  /\ card = NewCardTriple
  /\ history = <<>>

\* the effects that run until the first card is on display
NextFromSaved == FilterEffect \/ ViewEffects

SpecFromSaved == SavedInit /\ [][NextFromSaved]_vars

\* ------------------------------------------------ from the first render
\* useState([]): the component as mounted, before the startup load
MountInit ==
  /\ words = <<>>
  /\ filteredWords = <<>>
  /\ visibleCardId = 0
  /\ studyMode = "random"
  /\ viewedCardIds = {}
  /\ lastRatingTime = LongAgo
  /\ now = StartTime
  /\ filterDirty = TRUE
  /\ viewDirty = FALSE
  /\ accepted = [i \in 1..NumWords |-> 0]
  /\ card = NewCardTriple
  /\ history = <<>>

\* useEffect "Load and migrate data" with nothing saved:
\* setWords(createInitialWords())
LoadEffect ==
  /\ words = <<>>
  /\ words' = [i \in 1..NumWords |-> InitialWord(i)]
  /\ filterDirty' = TRUE
  /\ UNCHANGED <<card, history, filteredWords, visibleCardId, studyMode, viewedCardIds,
                 lastRatingTime, now, viewDirty, accepted>>

NextFromMount == Next \/ LoadEffect

SpecFromMount == MountInit /\ [][NextFromMount]_vars

\* ------------------- events that arrive before the effects have run
\* A second press handled with the closure of the last render, while the
\* working set still holds the snapshot taken before the first press.
RateEarly(quality) ==
  /\ filterDirty /\ ~viewDirty
  /\ HasCurrentCard
  /\ LET pending == WordOf(CurrentCard.id).totalReviews - CurrentCard.totalReviews
     IN  pending >= 1 /\ pending <= MaxPending
  /\ RatePressed(quality)

NextUnserialized ==
  \/ Next
  \/ \E quality \in UIQualities : RateEarly(quality)

SpecUnserialized == Init /\ [][NextUnserialized]_vars

\* ------------------------------------------- the scheduler on its own
\* the ease factors reachable in steps of 0.05
EaseInputs == {e \in MinEase..MaxEase : e % 5 = 0}

ValidInputs ==
  [interval : 1..MaxInterval, easeFactor : EaseInputs, consecutiveCorrect : 0..MaxStreak]

\* one call of calculateNextInterval on the result of the previous one
Apply(quality, tieUp) ==
  LET result == CalculateNextInterval(quality, card.interval, card.easeFactor,
                                      card.consecutiveCorrect, tieUp)
  IN  /\ Len(history) < MaxSteps
      /\ result.interval <= MaxInterval
      /\ card' = result
      /\ history' = Append(history, [quality |-> quality, before |-> card, after |-> result])
      /\ UNCHANGED appVars

SRSInit ==
  /\ AppInit
  /\ card \in ValidInputs
  /\ history = <<>>

SRSNext == \E quality \in Qualities, tieUp \in BOOLEAN : Apply(quality, tieUp)

SpecSRS == SRSInit /\ [][SRSNext]_vars

\* calculateNextInterval called with any number as the quality: the argument
\* is not restricted by the function or by updateWordWithSRS
AnyQualities == Qualities \cup {0 - 1, 4}

SRSNextAnyQuality == \E quality \in AnyQualities, tieUp \in BOOLEAN : Apply(quality, tieUp)

SpecSRSAnyQuality == SRSInit /\ [][SRSNextAnyQuality]_vars

\* --------------------------- FlashCardApp.jsx: rating and analytics
\* updateWordWithSRS of FlashCardApp.jsx: the updater applied to the item
FlashCardUpdateWord(word, quality, today, tieUp) ==
  LET newStatus ==
        IF quality = 1 THEN STATUS_LEARNED
        ELSE IF quality = 0 THEN STATUS_REVIEW
        ELSE STATUS_UNDEFINED
      currentInterval == IF word.interval = 0 THEN 1 ELSE word.interval
      currentEaseFactor == IF word.easeFactor = 0 THEN InitialEase ELSE word.easeFactor
      srsResult == CalculateNextInterval(quality, currentInterval, currentEaseFactor,
                                         word.consecutiveCorrect, tieUp)
  IN  [word EXCEPT
         !.status = newStatus,
         !.lastReviewed = today,
         !.totalReviews = word.totalReviews + 1,
         !.interval = srsResult.interval,
         !.nextReview = CalculateNextReviewDate(JSNumber(srsResult.interval), today),
         !.consecutiveCorrect = srsResult.consecutiveCorrect,
         !.easeFactor = srsResult.easeFactor,
         !.mistakeCount = IF quality < 1 THEN word.mistakeCount + 1
                          ELSE word.mistakeCount]

\* the calls of recordNewWordLearned one call of updateWordWithSRS makes
RecordNewWordLearnedCalls(word, quality) == IF quality >= 1 THEN 1 ELSE 0

\* updateWordWithSRS(wordId, quality) of FlashCardApp.jsx; history logs the
\* call with the status before and after and the analytics calls it made
FlashCardRate(wordId, quality) ==
  /\ Len(history) < MaxSteps
  /\ \E tieUp \in BOOLEAN :
       LET Update(w) == FlashCardUpdateWord(w, quality, now, tieUp)
       IN  /\ Update(WordOf(wordId)).interval <= MaxInterval
           /\ words' = MapWord(words, wordId, Update)
           /\ history' = Append(history,
                 [wordId |-> wordId, quality |-> quality,
                  before |-> WordOf(wordId).status,
                  after |-> Update(WordOf(wordId)).status,
                  events |-> RecordNewWordLearnedCalls(WordOf(wordId), quality)])
  /\ UNCHANGED <<card, filteredWords, visibleCardId, studyMode, viewedCardIds,
                 lastRatingTime, now, filterDirty, viewDirty, accepted>>

\* resetCardToLearning of FlashCardApp.jsx on the given card
FlashCardReset(wordId) ==
  /\ WordOf(wordId) # InitialWord(wordId)
  /\ words' = MapWord(words, wordId, ResetWord)
  /\ UNCHANGED <<card, history, filteredWords, visibleCardId, studyMode, viewedCardIds,
                 lastRatingTime, now, filterDirty, viewDirty, accepted>>

FlashCardNext ==
  \/ \E wordId \in Ids(words), quality \in UIQualities : FlashCardRate(wordId, quality)
  \/ \E wordId \in Ids(words) : FlashCardReset(wordId)

SpecFlashCardApp == Init /\ [][FlashCardNext]_vars

\* ------------------------------- calculateNextReviewDate on its own
\* the clock values of the model
Times == {t \in [day : 0..MaxDay, ms : 0..MaxMs] : t.ms % ClockStepMs = 0}

IntervalInputs ==
  {JSNumber(n) : n \in (0 - MaxInterval)..MaxInterval}
    \cup {NaN, PosInfinity, NegInfinity} \cup NonNumbers

\* one call of calculateNextReviewDate(card) at time now
ApplyDate ==
  /\ history = <<>>
  /\ history' = <<[interval |-> card, today |-> now,
                   result |-> CalculateNextReviewDate(card, now)]>>
  /\ UNCHANGED <<card, appVars>>

DateInit ==
  /\ \E time \in Times : AppInitAt(time)
  /\ card \in IntervalInputs
  /\ history = <<>>

DateNext == ApplyDate

SpecDate == DateInit /\ [][DateNext]_vars

\* ============================================================ properties
\* every application of calculateNextInterval recorded so far
Steps == {history[k] : k \in DOMAIN history}

FloorOnValidInputs ==
  \A in \in ValidInputs, quality \in Qualities, tieUp \in BOOLEAN :
    CalculateNextInterval(quality, in.interval, in.easeFactor,
                          in.consecutiveCorrect, tieUp).interval >= 1

\* C2 (interval floor): calculateNextInterval returns interval >= 1 for every
\* quality and valid input, and every item of the collection and of the
\* working set has interval >= 1 in every state reached by viewing, rating,
\* toggling and resetting.
C2_IntervalFloor ==
  /\ FloorOnValidInputs
  /\ \A i \in 1..Len(words) : words[i].interval >= 1
  /\ \A i \in 1..Len(filteredWords) : filteredWords[i].interval >= 1

\* an item that lapsed (rated 0) after it had been rated before
C2_Witness ==
  \E i \in 1..Len(words) :
    /\ words[i].totalReviews >= 2
    /\ words[i].mistakeCount >= 1
    /\ words[i].consecutiveCorrect = 0
    /\ words[i].interval = 1

\* C3 (lapse reset): AGAIN returns interval 1 and streak 0 whatever the prior
\* interval and streak were, with ease max(1.3, e - 0.20).
C3_LapseReset ==
  \A s \in Steps :
    s.quality = AGAIN =>
      /\ s.after.interval = 1
      /\ s.after.consecutiveCorrect = 0
      /\ s.after.easeFactor = Max(MinEase, s.before.easeFactor - 20)

\* the scenario: interval 10, ease 2.0, streak 4 lapses to interval 1,
\* streak 0, ease 1.8
C3_Witness ==
  \E s \in Steps :
    /\ s.quality = AGAIN
    /\ s.before = [interval |-> 10, easeFactor |-> 200, consecutiveCorrect |-> 4]
    /\ s.after = [interval |-> 1, easeFactor |-> 180, consecutiveCorrect |-> 0]

C5_StreakCounter ==
  \A s \in Steps :
    /\ (s.after.consecutiveCorrect = 0) <=> (s.quality = AGAIN)
    /\ s.quality # AGAIN =>
         s.after.consecutiveCorrect = s.before.consecutiveCorrect + 1

\* a HARD rating that extends a streak, followed by a lapse
C5_Witness ==
  /\ Len(history) >= 2
  /\ history[1].quality = HARD
  /\ history[1].before.consecutiveCorrect >= 1
  /\ history[1].after.consecutiveCorrect = history[1].before.consecutiveCorrect + 1
  /\ history[2].quality = AGAIN
  /\ history[2].after.consecutiveCorrect = 0

\* the item the pressed button or key acts on, after the step
Displayed == IF HasCurrentCard THEN CurrentCard.id ELSE 0
ItemAfter(wordId) == (WordOf(wordId))'

\* C6 (status state machine): an ordinary rating of an item in LEARNING,
\* LEARNED or REVIEW sets its status to LEARNED for GOOD or EASY and to
\* REVIEW for AGAIN or HARD, and leaves it within LEARNED or REVIEW.
C6_StatusMachine ==
  [][\A quality \in UIQualities :
       (/\ Rate(quality)
        /\ HasCurrentCard
        /\ ~IsActualToggle(quality)
        /\ accepted' # accepted
        /\ WordOf(Displayed).status \in {STATUS_LEARNING, STATUS_LEARNED, STATUS_REVIEW})
       => /\ quality \in {GOOD, EASY} => ItemAfter(Displayed).status = STATUS_LEARNED
          /\ quality \in {AGAIN, HARD} => ItemAfter(Displayed).status = STATUS_REVIEW
          /\ ItemAfter(Displayed).status \in {STATUS_LEARNED, STATUS_REVIEW}]_vars

\* the displayed card is a card of the working set and no effect is scheduled
Showing(wordId) == Quiescent /\ visibleCardId = wordId /\ wordId \in Ids(filteredWords)

\* C7 (first exposure): whenever an item whose status is NEW is the displayed
\* card, its status becomes LEARNING without a rating, so once the effects
\* have run the displayed card is never NEW; and the transition NEW to
\* LEARNING leaves interval, easeFactor, consecutiveCorrect, totalReviews,
\* mistakeCount and nextReview unchanged.
C7_FirstExposure ==
  [][/\ \A wordId \in Ids(words) :
          Showing(wordId)' => ItemAfter(wordId).status # STATUS_NEW
     /\ \A i \in 1..Len(words) :
          (words[i].status = STATUS_NEW /\ words'[i].status = STATUS_LEARNING) =>
            /\ words'[i].id = words[i].id
            /\ words'[i].interval = words[i].interval
            /\ words'[i].easeFactor = words[i].easeFactor
            /\ words'[i].consecutiveCorrect = words[i].consecutiveCorrect
            /\ words'[i].totalReviews = words[i].totalReviews
            /\ words'[i].mistakeCount = words[i].mistakeCount
            /\ words'[i].nextReview = words[i].nextReview]_vars

C9_ResetWipes ==
  [][(ResetCardToLearning /\ HasCurrentCard) =>
       /\ ItemAfter(Displayed) = InitialWord(Displayed)
       /\ ResetWord(ItemAfter(Displayed)) = ItemAfter(Displayed)]_vars

\* a card that had been viewed and rated down twice, and is fresh again
C9_Witness ==
  \E i \in 1..Len(words) :
    /\ words[i] = InitialWord(words[i].id)
    /\ words[i].id \in viewedCardIds
    /\ \E j \in 1..Len(filteredWords) :
         /\ filteredWords[j].id = words[i].id
         /\ filteredWords[j].easeFactor < InitialEase
         /\ filteredWords[j].mistakeCount > 0
         /\ ~IsNull(filteredWords[j].nextReview)

\* C10 (no lost update): every accepted rating or toggle of an item adds
\* exactly 1 to its totalReviews, so totalReviews equals the number of
\* updates accepted since creation or the last reset, also when a second
\* press is handled before the first one has been rendered.
C10_NoLostUpdate ==
  \A i \in 1..Len(words) : words[i].totalReviews = accepted[words[i].id]

\* two updates of the displayed card accepted on the same snapshot
C10_Witness ==
  /\ filterDirty
  /\ HasCurrentCard
  /\ accepted[CurrentCard.id] = CurrentCard.totalReviews + 2
  /\ CurrentCard.totalReviews >= 1

\* C11 (double-submission debounce): a press of a rating button or key on an
\* item less than 1000 ms after the last accepted rating of that item (the
\* item's lastReviewed once it has been rated) leaves the item unchanged.
C11_Debounce ==
  [][\A quality \in UIQualities :
       (/\ Rate(quality)
        /\ HasCurrentCard
        /\ accepted[Displayed] > 0
        /\ ElapsedMs(now, WordOf(Displayed).lastReviewed) < DebounceMs)
       => ItemAfter(Displayed) = WordOf(Displayed)]_vars

\* the intervals the validation is there for: not a number, NaN, negative,
\* or not finite
IsInvalidInterval(v) == v.type # "number" \/ v.kind # "finite" \/ v.value < 0

\* C12 (invalid interval fail-soft): calculateNextReviewDate never throws and
\* never returns an invalid date, and for every invalid interval (NaN,
\* negative, not a number, infinite) it returns the time one day after now.
C12_InvalidIntervalFailSoft ==
  \A k \in DOMAIN history :
    /\ history[k].result \notin {RangeError, InvalidDate}
    /\ history[k].result.day >= 0
    /\ IsInvalidInterval(history[k].interval) =>
         history[k].result = [day |-> history[k].today.day + 1,
                              ms |-> history[k].today.ms]

\* Infinity passes the input validation and is caught by the date validation
C12_Witness ==
  /\ history # <<>>
  /\ history[1].interval = PosInfinity
  /\ history[1].today.day > 0 /\ history[1].today.ms > 0
  /\ history[1].result = [day |-> history[1].today.day + 1, ms |-> history[1].today.ms]

\* C13 (invalid quality is rejected): a rating whose quality is outside
\* {0, 1, 2, 3} changes nothing: ease factor, interval and streak stay as
\* they were.
C13_InvalidQualityRejected ==
  \A s \in Steps : s.quality \notin Qualities => s.after = s.before

\* the analytics calls made for an item, and its transitions into LEARNED
EventsFor(wordId) ==
  Cardinality({k \in DOMAIN history :
                 history[k].wordId = wordId /\ history[k].events > 0})
TransitionsIntoLearned(wordId) ==
  Cardinality({k \in DOMAIN history :
                 /\ history[k].wordId = wordId
                 /\ history[k].before # STATUS_LEARNED
                 /\ history[k].after = STATUS_LEARNED})

\* C14 (newly-learned event is edge-triggered): a rating calls
\* recordNewWordLearned once when it moves the item into LEARNED and not at
\* all when the item already was LEARNED or does not become LEARNED; the
\* events of an item never outnumber its transitions into LEARNED.
C14_EdgeTriggered ==
  /\ \A k \in DOMAIN history :
       history[k].events =
         IF history[k].before # STATUS_LEARNED /\ history[k].after = STATUS_LEARNED
           THEN 1 ELSE 0
  /\ \A wordId \in Ids(words) : EventsFor(wordId) <= TransitionsIntoLearned(wordId)

\* classify of the specification: NEW when totalReviews is 0, otherwise the
\* status field
Classify(word) == IF word.totalReviews = 0 THEN STATUS_NEW ELSE word.status

\* the working set after the filter effect has run on the current collection
WorkingSetCurrent == ~filterDirty /\ studyMode # "random"
WorkingSetIds == {filteredWords[i].id : i \in 1..Len(filteredWords)}
EachOnce ==
  /\ Cardinality(WorkingSetIds) = Len(filteredWords)
  /\ \A i \in 1..Len(filteredWords) : filteredWords[i] = WordOf(filteredWords[i].id)

WorkingSetAfter == filteredWords'

\* C16 (RANDOM keeps the collection reachable): whenever the filter effect
\* builds the RANDOM working set, every item of the collection is in it at
\* least once, and every item the weighting pass left out stands after all
\* weighted entries.
C16_RandomKeepsAll ==
  [][(FilterEffect /\ studyMode = "random") =>
       LET weighted == Ids(PrioritizedCards(words, now))
           result == WorkingSetAfter
       IN  /\ Ids(words) \subseteq Ids(result)
           /\ \A i, j \in 1..Len(result) :
                (result[i].id \notin weighted /\ result[j].id \in weighted) => j < i]_vars

\* both items are scheduled for a later day: the 10% share admits the first,
\* the second is left out by the weighting pass and appended at the end
C16_Witness ==
  /\ studyMode = "random"
  /\ ~filterDirty
  /\ \A i \in 1..Len(words) :
       words[i].totalReviews > 0 /\ words[i].nextReview.day > now.day
  /\ Len(filteredWords) = Len(words)
  /\ filteredWords[Len(filteredWords)] = words[Len(words)]
  /\ Ids(PrioritizedCards(words, now)) = {words[1].id}

\* the scheduled review date of the item has arrived
ReviewDateArrived(word, today) ==
  ~IsNull(word.nextReview) /\ TimeLE(word.nextReview, today)

C18_OneDueTest ==
  \A i \in 1..Len(words) :
    /\ IsDueForSort(words[i], now) <=> IsCardDue(words[i].nextReview, now)
    /\ CountsAsDue(words[i], now) <=> IsCardDue(words[i].nextReview, now)

\* C18 amended: for an item that has a nextReview the ordering's due test
\* agrees with isCardDue (due exactly when now >= nextReview), and the
\* statistic counts an item as due exactly when it has been reviewed and
\* isCardDue holds; an item without nextReview is due for isCardDue only.
C18_DueTestsOnScheduled ==
  \A i \in 1..Len(words) :
    /\ ~IsNull(words[i].nextReview) =>
         /\ IsDueForSort(words[i], now) <=> IsCardDue(words[i].nextReview, now)
         /\ IsDueForSort(words[i], now) <=> TimeLE(words[i].nextReview, now)
    /\ CountsAsDue(words[i], now) <=>
         (words[i].totalReviews > 0 /\ IsCardDue(words[i].nextReview, now))
    /\ IsNull(words[i].nextReview) =>
         /\ IsCardDue(words[i].nextReview, now)
         /\ ~IsDueForSort(words[i], now)
         /\ ~CountsAsDue(words[i], now)

\* one item whose review time is exactly now, one that was never scheduled
C18_Witness ==
  \E i, j \in 1..Len(words) :
    /\ words[i].nextReview = now
    /\ words[i].totalReviews > 0
    /\ IsNull(words[j].nextReview)
    /\ words[j].status = STATUS_LEARNING

\* C19 (overdue is a calendar-day test): the statistic counts an item as
\* overdue exactly when it has been reviewed and its nextReview lies before
\* the start of the current calendar day, so an item whose nextReview is
\* earlier on the current day is due but not overdue; overdue <= due.
C19_OverdueByCalendarDay ==
  /\ \A i \in 1..Len(words) :
       CountsAsOverdue(words[i], now) <=>
         /\ words[i].totalReviews > 0
         /\ ~IsNull(words[i].nextReview)
         /\ words[i].nextReview.day < now.day
  /\ NewStats(words, now).overdue <= NewStats(words, now).due

\* C20 (status counts partition the collection): the statistics count every
\* item in exactly one of the buckets new, learning, review and learned, so
\* the four counts add up to the number of items in every reachable state.
C20_CountsPartition ==
  /\ NewStats(words, now).new + NewStats(words, now).learning
       + NewStats(words, now).review + NewStats(words, now).learned = Len(words)
  /\ GetCardStats(words).new + GetCardStats(words).learning
       + GetCardStats(words).review + GetCardStats(words).learned = Len(words)

\* no item of the collection passes the filter of the current mode
NothingToStudy ==
  /\ studyMode # "random"
  /\ \A i \in 1..Len(words) :
       IF studyMode = "new"
         THEN words[i].status # STATUS_NEW /\ words[i].totalReviews # 0
         ELSE words[i].status # studyMode

\* C21 (an empty working set is not an error): a run of the filter effect on
\* an empty collection, or in a mode whose filter no item passes, ends with
\* an empty working set, never with one left over from an earlier run; and
\* the displayed card is left as it was.
C21_EmptyWorkingSet ==
  [][(FilterEffect /\ (words = <<>> \/ NothingToStudy)) =>
       /\ WorkingSetAfter = <<>>
       /\ visibleCardId' = visibleCardId
       /\ words' = words]_vars

\* the working set was emptied by a mode no item is in, after a card had been
\* displayed and rated
C21_Witness ==
  /\ ~filterDirty
  /\ NothingToStudy
  /\ filteredWords = <<>>
  /\ visibleCardId # 0
  /\ \E i \in 1..Len(words) : words[i].totalReviews > 0

\* the step changes no item other than the given one, and no id or createdDate
OnlyItemChanged(wordId) ==
  /\ Len(words') = Len(words)
  /\ \A i \in 1..Len(words) :
       /\ words'[i].id = words[i].id
       /\ words'[i].createdDate = words[i].createdDate
       /\ words[i].id # wordId => words'[i] = words[i]

\* C22 (identity and isolation): marking a card as viewed, rating it,
\* toggling it or resetting it never changes its id or createdDate and
\* leaves every other item of the collection as it was.
C22_IdentityAndIsolation ==
  [][/\ (\E quality \in UIQualities : Rate(quality)) => OnlyItemChanged(Displayed)
     /\ ResetCardToLearning => OnlyItemChanged(Displayed)
     /\ ViewEffects => OnlyItemChanged(visibleCardId)]_vars

\* on a later day one item has been rated, toggled and rated again and still
\* has its creation date, the other item has been viewed and then reset
C22_Witness ==
  \E i, j \in 1..Len(words) :
    /\ i # j
    /\ words[i].totalReviews >= 3
    /\ words[i].createdDate = StartTime
    /\ words[i].lastReviewed.day > 0
    /\ words[j] = InitialWord(words[j].id)
    /\ words[j].id \in viewedCardIds

\* C23 (multiplicative growth with EASY boost): on the third or later
\* consecutive non-AGAIN rating the new interval is the rounded product of
\* the previous interval, the ease factor already adjusted for this rating,
\* and 1.3 for EASY or 1.0 for HARD and GOOD.
C23_GrowthWithEasyBoost ==
  \A s \in Steps :
    (s.quality \in {HARD, GOOD, EASY} /\ s.before.consecutiveCorrect >= 2) =>
      \E tieUp \in BOOLEAN :
        s.after.interval =
          MathRound(s.before.interval * s.after.easeFactor
                      * (IF s.quality = EASY THEN 13 ELSE 10), 1000, tieUp)

PositionIn(ws, id) == CHOOSE i \in 1..Len(ws) : ws[i].id = id

Occurrences(ws, id) == Cardinality({i \in 1..Len(ws) : ws[i].id = id})

\* C26 (RANDOM weighting): in the working set the RANDOM mode builds from a
\* non-empty collection, every reviewed item whose review date lies before the
\* current day stands exactly twice, every reviewed item whose review date is
\* the current day and every new item stands exactly once, no item stands more
\* than twice, and the weighted list holds at most ceil(10%) of the reviewed
\* items whose review date is still ahead.
C26_RandomWeighting ==
  [][(FilterEffect /\ studyMode = "random" /\ Len(words) > 0) =>
       LET result == WorkingSetAfter
           Reviewed(w) == ~IsNull(w.nextReview) /\ w.totalReviews > 0
           IsFuture(w) == Reviewed(w) /\ TimeLT(now, w.nextReview)
           prioritized == PrioritizedCards(words, now)
           admitted == {i \in 1..Len(prioritized) : IsFuture(prioritized[i])}
       IN  /\ \A k \in 1..Len(words) :
                LET w == words[k]
                IN  /\ Occurrences(result, w.id) <= 2
                    /\ (Reviewed(w) /\ w.nextReview.day < now.day) =>
                         Occurrences(result, w.id) = 2
                    /\ (Reviewed(w) /\ w.nextReview.day = now.day) =>
                         Occurrences(result, w.id) = 1
                    /\ (w.status = STATUS_NEW \/ w.totalReviews = 0) =>
                         Occurrences(result, w.id) = 1
           /\ Cardinality(admitted) * 10 <= Len(SelectSeq(words, IsFuture)) + 9]_vars

SchedulingFields(word) ==
  <<word.interval, word.easeFactor, word.consecutiveCorrect, word.nextReview,
    word.mistakeCount>>

\* C28 (toggle): thumbs-up on a displayed LEARNED card and thumbs-down on a
\* displayed REVIEW card set its status to "learning" and leave interval,
\* easeFactor, consecutiveCorrect, nextReview and mistakeCount as they were;
\* the other button on such a card is an ordinary rating: unless the debounce
\* drops it, the card gets the status of the button and the fields that
\* calculateNextInterval and calculateNextReviewDate compute.
C28_Toggle ==
  [][\A quality \in UIQualities :
       (Rate(quality) /\ HasCurrentCard
          /\ WordOf(Displayed).status \in {STATUS_LEARNED, STATUS_REVIEW}) =>
         LET before == WordOf(Displayed)
             after == ItemAfter(Displayed)
             sameButton == \/ quality = 1 /\ before.status = STATUS_LEARNED
                           \/ quality = 0 /\ before.status = STATUS_REVIEW
         IN  IF sameButton
               THEN /\ after.status = STATUS_LEARNING
                    /\ SchedulingFields(after) = SchedulingFields(before)
                    /\ after.totalReviews = before.totalReviews + 1
               ELSE \/ /\ ElapsedMs(now, lastRatingTime) < DebounceMs
                       /\ after = before
                    \/ /\ ElapsedMs(now, lastRatingTime) >= DebounceMs
                       /\ \E tieUp \in BOOLEAN :
                            after = UpdateWordWithSRS(before, quality, FALSE, now, tieUp)
                       /\ after.status = IF quality = 1 THEN STATUS_LEARNED
                                         ELSE STATUS_REVIEW]_vars

\* one card toggled back from "learned" and the other one from "review": both
\* are "learning" and carry the schedule of their one rating
C28_Witness ==
  \E i, j \in 1..Len(words) :
    /\ words[i].status = STATUS_LEARNING
    /\ words[i].totalReviews = 2
    /\ words[i].consecutiveCorrect = 1
    /\ words[i].easeFactor = InitialEase - 5
    /\ words[i].mistakeCount = 0
    /\ ~IsNull(words[i].nextReview)
    /\ words[j].status = STATUS_LEARNING
    /\ words[j].totalReviews = 2
    /\ words[j].consecutiveCorrect = 0
    /\ words[j].easeFactor = InitialEase - 20
    /\ words[j].mistakeCount = 1
    /\ ~IsNull(words[j].nextReview)

C30_StudyStreaks ==
  \A k \in 1..Len(history) :
    LET today == history[k].today
        before == history[k].before
        after == history[k].after
    IN  /\ after.longest >= after.current
        /\ after.current >= 1
        /\ after.lastStudyDate = today
        /\ (before.lastStudyDate >= 0 /\ today = before.lastStudyDate) =>
             /\ after.current = before.current
             /\ after.longest = before.longest
        /\ (before.lastStudyDate >= 0 /\ today = before.lastStudyDate + 1) =>
             after.current = before.current + 1
        /\ (before.lastStudyDate >= 0 /\ today > before.lastStudyDate + 1) =>
             /\ after.current = 1
             /\ after.longest >= before.longest

\* sessions on day 0, again on day 0, on day 1 and on day 3: the streak is
\* 1, 1, 2 and 1 again, the longest streak stays 2
C30_Witness ==
  /\ Len(history) = 4
  /\ card.totalSessions = 4
  /\ history[1].before = InitialStats.streaks
  /\ history[2].today = history[1].today
  /\ history[2].after.current = 1
  /\ history[3].today = history[2].today + 1
  /\ history[3].after.current = 2
  /\ history[4].today = history[3].today + 2
  /\ history[4].after.current = 1
  /\ history[4].after.longest = 2
  /\ card.streaks = history[4].after

====
